---- MODULE Spec2Model ----
(***************************************************************************)
(* Model of src/editor/style_registry.rs: the StyleRegistry that keeps     *)
(* styles updated with the opacity configured for their colours.           *)
(***************************************************************************)
EXTENDS Integers, Sequences, FiniteSets, TLC

(* ---------------------------- bounds ----------------------------------- *)
\* number of set_style calls in a run (bounds the length of the reverse-index lists)
MaxSetStyle == 2

(* ----------------------- values of the collaborators ------------------- *)
\* Option::None of style.bg() / style.fg()
NoColor == -1
\* opacity field of a style on which no opacity setter has acted
NoOpacity == 0

\* the colour identifiers the callers use
ColorIds == {1, 2}
\* the style identifiers the callers use; 0 is the default style slot
StyleIds == {0, 1}
\* default_opacity arguments used by the callers
Factors == {11, 13}
\* ColorOpacity: a pair of factors, one per side
ColorOpacities == { [bg |-> 2, fg |-> 3], [bg |-> 5, fg |-> 7] }

\* value derived from one side's factor and the default factor
Derived(factor, default_opacity) == factor * default_opacity

\* Style::bg / Style::fg
bg(style) == style.bg
fg(style) == style.fg

\* Style::set_background_opacity
set_background_opacity(style, color_opacity, default_opacity) ==
    [style EXCEPT !.bg_opacity = Derived(color_opacity.bg, default_opacity)]

\* Style::set_foreground_opacity
set_foreground_opacity(style, color_opacity, default_opacity) ==
    [style EXCEPT !.fg_opacity = Derived(color_opacity.fg, default_opacity)]

\* the fn pointer handed to the closures: one of the two setters
set_opacity_fn(side, style, color_opacity, default_opacity) ==
    IF side = "bg"
    THEN set_background_opacity(style, color_opacity, default_opacity)
    ELSE set_foreground_opacity(style, color_opacity, default_opacity)

\* styles a caller hands to set_style: colours chosen, no opacity applied yet
InputStyles ==
    { [bg |-> b, fg |-> f, bg_opacity |-> NoOpacity, fg_opacity |-> NoOpacity] :
        b \in ColorIds \cup {NoColor}, f \in ColorIds \cup {NoColor} }

(* ------------------------------ state ---------------------------------- *)
VARIABLES
    defined_styles,              \* StyleId -> Style (partial)
    defined_opacities,           \* ColorId -> ColorOpacity (partial)
    background_color_style_map,  \* ColorId -> Seq(StyleId) (partial)
    foreground_color_style_map,  \* ColorId -> Seq(StyleId) (partial)
    bg_iter_order,               \* keys of background_color_style_map in the order
                                 \* in which its iterations are known to visit them
    fg_iter_order,               \* the same for foreground_color_style_map
    snapshot,                    \* a style handle held by a reader, or NoSnapshot
    last,                        \* the last call that changes the registry
    n_set_style                  \* number of set_style calls so far

vars == << defined_styles, defined_opacities, background_color_style_map,
           foreground_color_style_map, bg_iter_order, fg_iter_order,
           snapshot, last, n_set_style >>

\* the four tables of the struct
StyleRegistry ==
    [ defined_styles |-> defined_styles,
      defined_opacities |-> defined_opacities,
      background_color_style_map |-> background_color_style_map,
      foreground_color_style_map |-> foreground_color_style_map ]

(* --------------------------- HashMap / Vec ------------------------------ *)
\* HashMap::new()
EmptyMap == [k \in {} |-> 0]

\* HashMap::insert(k, v)
Insert(map, k, v) == [x \in (DOMAIN map) \cup {k} |-> IF x = k THEN v ELSE map[x]]

\* mutant: an identifier already in the list is not pushed again
EntryPush_dedup(map, k, v) ==
    IF k \in DOMAIN map /\ \E i \in 1..Len(map[k]) : map[k][i] = v
    THEN map
    ELSE Insert(map, k, IF k \in DOMAIN map THEN Append(map[k], v) ELSE << v >>)

\* HashMap::entry(k).or_default().push(v)
EntryPush(map, k, v) ==
    Insert(map, k, IF k \in DOMAIN map THEN Append(map[k], v) ELSE << v >>)

\* a key inserted at any position of an iteration order
InsertKey(order, k) ==
    { SubSeq(order, 1, i) \o << k >> \o SubSeq(order, i + 1, Len(order)) :
        i \in 0..Len(order) }

\* HashMap::iter(): the orders in which an iteration may visit the keys. The
\* place of a key depends on its hash under the map's RandomState, so a key
\* whose place is not known yet may come at any position; keys whose order is
\* known keep it: nothing is ever removed from the maps, and with the colours
\* of ColorIds a map never outgrows its first allocation
RECURSIVE IterOrders(_, _)
IterOrders(seen, keys) ==
    LET unseen == keys \ { seen[i] : i \in 1..Len(seen) }
    IN  IF unseen = {} THEN { seen }
        ELSE LET k == CHOOSE x \in unseen : TRUE
             IN  UNION { IterOrders(order, keys) : order \in InsertKey(seen, k) }

(* ------------------------ Arc<Style> handles ---------------------------- *)
\* a reader holds no handle; via names the accessor a handle came from
NoSnapshot ==
    [ id |-> -1, shared |-> FALSE, via |-> "none",
      style |-> [bg |-> NoColor, fg |-> NoColor,
                 bg_opacity |-> NoOpacity, fg_opacity |-> NoOpacity] ]

\* mutant: the default style is looked up under identifier 1
default_style_of_one(reg) ==
    IF 1 \in DOMAIN reg.defined_styles
    THEN [ id |-> 0, shared |-> FALSE, via |-> "default_style",
           style |-> reg.defined_styles[1] ]
    ELSE [ NoSnapshot EXCEPT !.via = "default_style" ]

\* StyleRegistry::default_style: Some(copy of the style under id 0), or None
default_style(reg) ==
    IF 0 \in DOMAIN reg.defined_styles
    THEN [ id |-> 0, shared |-> FALSE, via |-> "default_style",
           style |-> reg.defined_styles[0] ]
    ELSE [ NoSnapshot EXCEPT !.via = "default_style" ]

\* mutant: the style is written through the stored Arc, so a reader's handle
\* to the same allocation shows the new contents
insert_in_place_held(held, id, style) ==
    IF held.shared /\ held.id = id THEN [held EXCEPT !.style = style] ELSE held

\* self.defined_styles.insert(id, Arc::new(style)) seen from a reader's handle:
\* the table slot now points at a new allocation, the reader's Arc keeps the
\* old allocation alive and is no longer the one stored under id
insert_arc_held(held, id, style) ==
    IF held.shared /\ held.id = id THEN [held EXCEPT !.shared = FALSE] ELSE held

\* the sequence of defined_styles.insert(id, Arc::new(style)) calls, applied
RECURSIVE ApplyInserts(_, _)
ApplyInserts(styles, writes) ==
    IF writes = << >> THEN styles
    ELSE ApplyInserts(Insert(styles, Head(writes)[1], Head(writes)[2]), Tail(writes))

\* the reader's handle after the same sequence of inserts
RECURSIVE HeldAfter(_, _)
HeldAfter(held, writes) ==
    IF writes = << >> THEN held
    ELSE HeldAfter(insert_arc_held(held, Head(writes)[1], Head(writes)[2]), Tail(writes))

(* ------------------------------ set_style ------------------------------- *)
\* mutant: only the background opacity is applied at definition
update_style_opacities_background_only(reg, style, opacity) ==
    IF bg(style) # NoColor /\ bg(style) \in DOMAIN reg.defined_opacities
    THEN set_background_opacity(style, reg.defined_opacities[bg(style)], opacity)
    ELSE style

\* mutant: no opacity entry is applied at definition
update_style_opacities_not_applied(reg, style, opacity) == style

\* StyleRegistry::update_style_opacities_from_existing_mapping
update_style_opacities_from_existing_mapping(reg, style, opacity) ==
    LET s1 == IF bg(style) # NoColor /\ bg(style) \in DOMAIN reg.defined_opacities
              THEN set_background_opacity(style, reg.defined_opacities[bg(style)], opacity)
              ELSE style
    IN  IF fg(s1) # NoColor /\ fg(s1) \in DOMAIN reg.defined_opacities
        THEN set_foreground_opacity(s1, reg.defined_opacities[fg(s1)], opacity)
        ELSE s1

\* mutant: the identifier is listed only under a colour that is no key yet
update_color_to_style_mapping_new_key_only(reg, style, id) ==
    [ reg EXCEPT
        !.background_color_style_map =
            IF bg(style) # NoColor /\ bg(style) \notin DOMAIN @
            THEN EntryPush(@, bg(style), id) ELSE @,
        !.foreground_color_style_map =
            IF fg(style) # NoColor /\ fg(style) \notin DOMAIN @
            THEN EntryPush(@, fg(style), id) ELSE @ ]

\* StyleRegistry::update_color_to_style_mapping
update_color_to_style_mapping(reg, style, id) ==
    [ reg EXCEPT
        !.background_color_style_map =
            IF bg(style) # NoColor THEN EntryPush(@, bg(style), id) ELSE @,
        !.foreground_color_style_map =
            IF fg(style) # NoColor THEN EntryPush(@, fg(style), id) ELSE @ ]

\* mutant: a style set under an identifier that holds a style keeps the old
\* style's opacity on each side where its own colour has no entry
set_style_writes_merged(reg, style, id, default_opacity) ==
    LET old == IF id \in DOMAIN reg.defined_styles THEN reg.defined_styles[id] ELSE style
        kept == [ style EXCEPT !.bg_opacity = old.bg_opacity, !.fg_opacity = old.fg_opacity ]
    IN  << << id, update_style_opacities_from_existing_mapping(reg, kept, default_opacity) >> >>

\* the insert of StyleRegistry::set_style
set_style_writes(reg, style, id, default_opacity) ==
    << << id, update_style_opacities_from_existing_mapping(reg, style, default_opacity) >> >>

\* mutant: a style with no colour on either side is not stored
set_style_result_skips_colourless(reg, writes, id) ==
    IF bg(writes[1][2]) = NoColor /\ fg(writes[1][2]) = NoColor
    THEN reg
    ELSE [ update_color_to_style_mapping(reg, writes[1][2], id) EXCEPT
             !.defined_styles = ApplyInserts(@, writes) ]

\* StyleRegistry::set_style, given its insert
set_style_result(reg, writes, id) ==
    [ update_color_to_style_mapping(reg, writes[1][2], id) EXCEPT
        !.defined_styles = ApplyInserts(@, writes) ]

\* StyleRegistry::set_style
set_style(reg, style, id, default_opacity) ==
    set_style_result(reg, set_style_writes(reg, style, id, default_opacity), id)

(* ----------------------------- set_opacity ------------------------------ *)
\* the inserts of the for_each of the update_opacity closure over one id list;
\* each id is looked up in the table as the earlier inserts left it
RECURSIVE for_each_id_writes(_, _, _, _, _)
for_each_id_writes(styles, styles_id, side, color_opacity, default_opacity) ==
    IF styles_id = << >> THEN << >>
    ELSE LET id == Head(styles_id) IN
         IF id \in DOMAIN styles
         THEN LET style == set_opacity_fn(side, styles[id], color_opacity, default_opacity)
              IN  << << id, style >> >> \o
                  for_each_id_writes(Insert(styles, id, style), Tail(styles_id),
                                     side, color_opacity, default_opacity)
         ELSE for_each_id_writes(styles, Tail(styles_id), side, color_opacity, default_opacity)

\* mutant: only the first identifier listed under the colour is updated
update_opacity_writes_first_only(styles, styles_map, side, color, color_opacity, default_opacity) ==
    IF color \in DOMAIN styles_map
    THEN for_each_id_writes(styles, << Head(styles_map[color]) >>, side, color_opacity,
                            default_opacity)
    ELSE << >>

\* the update_opacity closure of set_opacity
update_opacity_writes(styles, styles_map, side, color, color_opacity, default_opacity) ==
    IF color \in DOMAIN styles_map
    THEN for_each_id_writes(styles, styles_map[color], side, color_opacity, default_opacity)
    ELSE << >>

\* mutant: the foreground pass starts from the table as it was on entry
foreground_pass_input_stale(styles, background_writes) == styles

\* the table the foreground call of update_opacity starts from
foreground_pass_input(styles, background_writes) == ApplyInserts(styles, background_writes)

\* mutant: only the background reverse index is walked
set_opacity_writes_background_only(reg, color, color_opacity, default_opacity) ==
    update_opacity_writes(reg.defined_styles, reg.background_color_style_map,
                          "bg", color, color_opacity, default_opacity)

\* the inserts of StyleRegistry::set_opacity: background pass, then foreground pass
set_opacity_writes(reg, color, color_opacity, default_opacity) ==
    LET background == update_opacity_writes(reg.defined_styles, reg.background_color_style_map,
                                            "bg", color, color_opacity, default_opacity)
        foreground == update_opacity_writes(foreground_pass_input(reg.defined_styles, background),
                                            reg.foreground_color_style_map,
                                            "fg", color, color_opacity, default_opacity)
    IN  background \o foreground

\* mutant: a colour that has an entry in the opacity table keeps it
set_opacity_result_keeps_entry(reg, writes, color, color_opacity) ==
    [ reg EXCEPT
        !.defined_styles = ApplyInserts(@, writes),
        !.defined_opacities = IF color \in DOMAIN @ THEN @ ELSE Insert(@, color, color_opacity) ]

\* StyleRegistry::set_opacity, given the inserts of its two passes: the styles
\* are written, then the colour's entry in the opacity table is upserted
set_opacity_result(reg, writes, color, color_opacity) ==
    [ reg EXCEPT
        !.defined_styles = ApplyInserts(@, writes),
        !.defined_opacities = Insert(@, color, color_opacity) ]

\* StyleRegistry::set_opacity
set_opacity(reg, color, color_opacity, default_opacity) ==
    set_opacity_result(reg, set_opacity_writes(reg, color, color_opacity, default_opacity),
                       color, color_opacity)

(* ----------------------- update_all_styles_opacity ---------------------- *)
\* the inner iterator of get_updated_styles for one colour: a copy of the stored
\* style of each listed id that has one, with the setter applied
updated_styles_of_color(reg, style_ids, side, color_opacity, default_opacity) ==
    LET present == SelectSeq(style_ids, LAMBDA id : id \in DOMAIN reg.defined_styles)
    IN  [ i \in 1..Len(present) |->
            << present[i],
               set_opacity_fn(side, reg.defined_styles[present[i]],
                              color_opacity, default_opacity) >> ]

\* the get_updated_styles closure: colours visited in the map's iteration order,
\* colours without an opacity entry filtered out, the rest flattened
RECURSIVE get_updated_styles(_, _, _, _, _)
get_updated_styles(reg, color_style_map, order, side, default_opacity) ==
    IF order = << >> THEN << >>
    ELSE LET color == Head(order)
             rest == get_updated_styles(reg, color_style_map, Tail(order), side, default_opacity)
         IN  IF color \in DOMAIN reg.defined_opacities
             THEN updated_styles_of_color(reg, color_style_map[color], side,
                                          reg.defined_opacities[color], default_opacity) \o rest
             ELSE rest

\* the inserts of update_all_styles_opacity: both lists are collected from the
\* table as it is on entry, then the background list is written, then the
\* foreground list
update_all_styles_opacity_writes(reg, bg_order, fg_order, default_opacity) ==
    LET new_background_styles ==
            get_updated_styles(reg, reg.background_color_style_map, bg_order, "bg", default_opacity)
        new_foreground_styles ==
            get_updated_styles(reg, reg.foreground_color_style_map, fg_order, "fg", default_opacity)
    IN  new_background_styles \o new_foreground_styles

\* the table left by writing one collected list depends on the order in which
\* the iteration visited the colours of the map
order_observable(reg, color_style_map, seen, side, default_opacity) ==
    /\ Cardinality(DOMAIN color_style_map \cap DOMAIN reg.defined_opacities) > 1
    /\ \E o1, o2 \in IterOrders(seen, DOMAIN color_style_map) :
        ApplyInserts(reg.defined_styles,
                     get_updated_styles(reg, color_style_map, o1, side, default_opacity))
        # ApplyInserts(reg.defined_styles,
                       get_updated_styles(reg, color_style_map, o2, side, default_opacity))

\* mutant: the map is rebuilt by the call, so the order a call has shown does
\* not carry over to the next call
known_order_lost(seen, order, shows) == seen

\* the order known after a call: it becomes known with the first call whose
\* outcome shows it, and an iteration leaves the map as it was
known_order(seen, order, shows) == IF shows THEN order ELSE seen

\* the orders one call may iterate a map in: every possible one when the
\* outcome depends on it, any single one when it does not
visit_orders(seen, keys, shows) ==
    IF shows THEN IterOrders(seen, keys)
    ELSE { CHOOSE order \in IterOrders(seen, keys) : TRUE }

\* mutant: the table is rebuilt from the collected styles alone
update_all_styles_opacity_result_rebuilt(reg, writes) ==
    [ reg EXCEPT !.defined_styles = ApplyInserts(EmptyMap, writes) ]

\* StyleRegistry::update_all_styles_opacity, given its inserts
update_all_styles_opacity_result(reg, writes) ==
    [ reg EXCEPT !.defined_styles = ApplyInserts(@, writes) ]

\* StyleRegistry::update_all_styles_opacity
update_all_styles_opacity(reg, bg_order, fg_order, default_opacity) ==
    update_all_styles_opacity_result(reg,
        update_all_styles_opacity_writes(reg, bg_order, fg_order, default_opacity))

(* ------------------------------ the calls ------------------------------- *)
\* record of a call of set_style, set_opacity or update_all_styles_opacity
\* arguments a call does not have
NoStyleId == NoSnapshot.id
NoStyle == NoSnapshot.style
NoColorOpacity == [bg |-> 0, fg |-> 0]
NoFactor == NoColorOpacity.bg

Call(op, id, style, color, color_opacity, default_opacity, repeated) ==
    [ op |-> op, id |-> id, style |-> style, color |-> color,
      color_opacity |-> color_opacity, default_opacity |-> default_opacity,
      repeated |-> repeated ]

NoCall == Call("new", NoStyleId, NoStyle, NoColor, NoColorOpacity, NoFactor, FALSE)

\* StyleRegistry::new
Init ==
    /\ defined_styles = EmptyMap
    /\ defined_opacities = EmptyMap
    /\ background_color_style_map = EmptyMap
    /\ foreground_color_style_map = EmptyMap
    /\ bg_iter_order = << >>
    /\ fg_iter_order = << >>
    /\ snapshot = NoSnapshot
    /\ last = NoCall
    /\ n_set_style = 0

\* the four tables take the values of a registry record
Becomes(registry) ==
    \E reg \in { registry } :
        /\ defined_styles' = reg.defined_styles
        /\ defined_opacities' = reg.defined_opacities
        /\ background_color_style_map' = reg.background_color_style_map
        /\ foreground_color_style_map' = reg.foreground_color_style_map

\* a caller calls set_style(style, id, default_opacity)
SetStyle(style, id, default_opacity) ==
    /\ n_set_style < MaxSetStyle
    /\ n_set_style' = n_set_style + 1
    /\ \E writes \in { set_style_writes(StyleRegistry, style, id, default_opacity) } :
        /\ Becomes(set_style_result(StyleRegistry, writes, id))
        /\ snapshot' = HeldAfter(snapshot, writes)
    /\ UNCHANGED << bg_iter_order, fg_iter_order >>
    /\ last' = Call("set_style", id, style, NoColor, NoColorOpacity, default_opacity, FALSE)

\* a caller calls set_opacity(color, color_opacity, default_opacity)
SetOpacity(color, color_opacity, default_opacity) ==
    /\ \E writes \in { set_opacity_writes(StyleRegistry, color, color_opacity,
                                           default_opacity) } :
        /\ Becomes(set_opacity_result(StyleRegistry, writes, color, color_opacity))
        /\ snapshot' = HeldAfter(snapshot, writes)
    /\ last' = Call("set_opacity", NoStyleId, NoStyle, color, color_opacity, default_opacity,
                    FALSE)
    /\ UNCHANGED << bg_iter_order, fg_iter_order, n_set_style >>

\* a caller calls update_all_styles_opacity(default_opacity)
UpdateAllStylesOpacity(default_opacity) ==
    /\ \E bg_shows \in { order_observable(StyleRegistry, background_color_style_map,
                                            bg_iter_order, "bg", default_opacity) },
          fg_shows \in { order_observable(StyleRegistry, foreground_color_style_map,
                                            fg_iter_order, "fg", default_opacity) } :
       \E bg_order \in visit_orders(bg_iter_order, DOMAIN background_color_style_map, bg_shows),
          fg_order \in visit_orders(fg_iter_order, DOMAIN foreground_color_style_map, fg_shows) :
        /\ bg_iter_order' = known_order(bg_iter_order, bg_order, bg_shows)
        /\ fg_iter_order' = known_order(fg_iter_order, fg_order, fg_shows)
        /\ \E writes \in { update_all_styles_opacity_writes(StyleRegistry, bg_order,
                                                             fg_order, default_opacity) } :
            /\ Becomes(update_all_styles_opacity_result(StyleRegistry, writes))
            /\ snapshot' = HeldAfter(snapshot, writes)
    /\ last' = Call("update_all_styles_opacity", NoStyleId, NoStyle, NoColor, NoColorOpacity,
                    default_opacity,
                    last.op = "update_all_styles_opacity"
                        /\ last.default_opacity = default_opacity)
    /\ UNCHANGED n_set_style

\* a reader clones the Arc stored under id out of defined_styles()
DefinedStyles(id) ==
    /\ id \in DOMAIN defined_styles
    /\ snapshot' = [ id |-> id, shared |-> TRUE, via |-> "defined_styles",
                      style |-> defined_styles[id] ]
    /\ UNCHANGED << defined_styles, defined_opacities, background_color_style_map,
                    foreground_color_style_map, bg_iter_order, fg_iter_order, last,
                    n_set_style >>

\* a reader calls default_style(): a copy of the style under id 0, or None
DefaultStyle ==
    /\ snapshot' = default_style(StyleRegistry)
    /\ UNCHANGED << defined_styles, defined_opacities, background_color_style_map,
                    foreground_color_style_map, bg_iter_order, fg_iter_order, last,
                    n_set_style >>

\* the calls that change the registry
Next ==
    \/ \E style \in InputStyles, id \in StyleIds, d \in Factors : SetStyle(style, id, d)
    \/ \E color \in ColorIds, o \in ColorOpacities, d \in Factors : SetOpacity(color, o, d)
    \/ \E d \in Factors : UpdateAllStylesOpacity(d)

Spec == Init /\ [][Next]_vars

\* the same calls, with a reader that clones Arc handles out of
\* defined_styles() in between
NextWithReader ==
    \/ Next
    \/ \E id \in StyleIds : DefinedStyles(id)

SpecWithReader == Init /\ [][NextWithReader]_vars

\* the same calls, with a reader that calls default_style() in between
NextWithDefaultStyle ==
    \/ Next
    \/ DefaultStyle

SpecWithDefaultStyle == Init /\ [][NextWithDefaultStyle]_vars

(* ------------------------------ properties ------------------------------ *)
\* the identifiers listed in a Vec<StyleId>
Ids(style_ids) == { style_ids[i] : i \in 1..Len(style_ids) }

\* the identifiers a reverse index lists under a colour
Listed(color_style_map, color) ==
    IF color \in DOMAIN color_style_map THEN Ids(color_style_map[color]) ELSE {}

\* the style has its background (foreground) opacity computed from entry o at factor d
BackgroundFrom(style, o, d) == style.bg_opacity = Derived(o.bg, d)
ForegroundFrom(style, o, d) == style.fg_opacity = Derived(o.fg, d)

\* C1: every stored style whose background (foreground) colour has an entry in
\* defined_opacities carries a background (foreground) opacity computed from
\* exactly that entry, at some default factor, whatever calls were made.
C1_NoStaleStyle ==
    \A id \in DOMAIN defined_styles :
        LET style == defined_styles[id] IN
        /\ bg(style) \in DOMAIN defined_opacities =>
             \E d \in Factors : BackgroundFrom(style, defined_opacities[bg(style)], d)
        /\ fg(style) \in DOMAIN defined_opacities =>
             \E d \in Factors : ForegroundFrom(style, defined_opacities[fg(style)], d)

\* C2: after update_all_styles_opacity(d) every stored style whose background
\* colour has an opacity entry has its background opacity derived from that
\* entry at d, and every stored style whose foreground colour has an entry has
\* its foreground opacity derived from that entry at d.
C2_RescaledBothSides ==
    last.op = "update_all_styles_opacity" =>
        \A id \in DOMAIN defined_styles :
            LET style == defined_styles[id] IN
            /\ bg(style) \in DOMAIN defined_opacities =>
                 BackgroundFrom(style, defined_opacities[bg(style)], last.default_opacity)
            /\ fg(style) \in DOMAIN defined_opacities =>
                 ForegroundFrom(style, defined_opacities[fg(style)], last.default_opacity)

\* C3: set_opacity(A, o, d) leaves unchanged every stored style whose background
\* and foreground colours are both different from A.
C3_NoInterference ==
    [][ last'.op = "set_opacity" =>
          \A id \in DOMAIN defined_styles :
              ( bg(defined_styles[id]) # last'.color /\ fg(defined_styles[id]) # last'.color )
                  => defined_styles'[id] = defined_styles[id] ]_vars

\* C4: after set_opacity(C, o, d) every stored style whose background colour is C
\* has background opacity derived(o, d), and every stored style whose foreground
\* colour is C has foreground opacity derived(o, d).
C4_OpacityPropagated ==
    last.op = "set_opacity" =>
        \A id \in DOMAIN defined_styles :
            LET style == defined_styles[id] IN
            /\ bg(style) = last.color =>
                 BackgroundFrom(style, last.color_opacity, last.default_opacity)
            /\ fg(style) = last.color =>
                 ForegroundFrom(style, last.color_opacity, last.default_opacity)

\* C4 witness: set_opacity(C, ..) has returned with two different identifiers
\* using C as background and some identifier using C as foreground.
C4_Witness ==
    /\ last.op = "set_opacity"
    /\ \E id1, id2 \in DOMAIN defined_styles :
        /\ id1 # id2
        /\ bg(defined_styles[id1]) = last.color
        /\ bg(defined_styles[id2]) = last.color
    /\ \E id \in DOMAIN defined_styles : fg(defined_styles[id]) = last.color

\* C5: right after set_style(s, id, d), if the colour s.bg has an entry o in
\* defined_opacities the style stored under id has background opacity
\* derived(o, d), and if s.fg has an entry o the stored style has foreground
\* opacity derived(o, d).
C5_AppliedAtDefinition ==
    last.op = "set_style" =>
        /\ last.id \in DOMAIN defined_styles
        /\ bg(last.style) \in DOMAIN defined_opacities =>
             BackgroundFrom(defined_styles[last.id], defined_opacities[bg(last.style)],
                            last.default_opacity)
        /\ fg(last.style) \in DOMAIN defined_opacities =>
             ForegroundFrom(defined_styles[last.id], defined_opacities[fg(last.style)],
                            last.default_opacity)

\* C5 witness: set_style has just stored a style both of whose colours had an
\* opacity entry, the two colours being different.
C5_Witness ==
    /\ last.op = "set_style"
    /\ bg(last.style) \in DOMAIN defined_opacities
    /\ fg(last.style) \in DOMAIN defined_opacities
    /\ bg(last.style) # fg(last.style)

\* C6 as stated: set_opacity(C, o, d) leaves unchanged every stored style that
\* uses C as its foreground colour and not as its background colour.
C6_ForegroundOnlyUnaffected ==
    [][ last'.op = "set_opacity" =>
          \A id \in DOMAIN defined_styles :
              ( fg(defined_styles[id]) = last'.color /\ bg(defined_styles[id]) # last'.color )
                  => defined_styles'[id] = defined_styles[id] ]_vars

\* C6 amended: set_opacity(C, o, d) gives every stored style that uses C as its
\* foreground colour and not as its background colour the foreground opacity
\* derived(o, d); it leaves the two colours of such a style unchanged, and its
\* background opacity too unless its identifier is listed under C in the
\* background reverse index.
C6_ForegroundOnlyRecomputed ==
    [][ last'.op = "set_opacity" =>
          \A id \in DOMAIN defined_styles :
              LET before == defined_styles[id]
                  after == defined_styles'[id]
              IN  ( fg(before) = last'.color /\ bg(before) # last'.color ) =>
                      /\ ForegroundFrom(after, last'.color_opacity, last'.default_opacity)
                      /\ bg(after) = bg(before)
                      /\ fg(after) = fg(before)
                      /\ id \notin Listed(background_color_style_map, last'.color)
                           => after.bg_opacity = before.bg_opacity ]_vars

\* C6 witness: set_opacity(C, ..) has returned and a stored style uses C as
\* foreground only, has another colour with a recomputed opacity as background,
\* and is not listed under C in the background reverse index.
C6_Witness ==
    /\ last.op = "set_opacity"
    /\ \E id \in DOMAIN defined_styles :
        /\ fg(defined_styles[id]) = last.color
        /\ bg(defined_styles[id]) \notin {last.color, NoColor}
        /\ defined_styles[id].bg_opacity # NoOpacity
        /\ defined_styles[id].fg_opacity # NoOpacity
        /\ id \notin Listed(background_color_style_map, last.color)

\* C7: a call of update_all_styles_opacity(d) that directly follows a call of
\* update_all_styles_opacity(d) with the same d changes none of the four tables.
C7_RescaleIdempotent ==
    [][ ( last'.op = "update_all_styles_opacity" /\ last'.repeated ) =>
          UNCHANGED << defined_styles, defined_opacities, background_color_style_map,
                       foreground_color_style_map >> ]_vars

\* C7 witness: update_all_styles_opacity(d) has been called twice in a row on a
\* registry in which one identifier is listed under two background colours
\* that both have an opacity entry, and stores a style with a configured
\* foreground colour too.
C7_Witness ==
    /\ last.op = "update_all_styles_opacity"
    /\ last.repeated
    /\ \E id \in DOMAIN defined_styles :
        /\ \E c1, c2 \in DOMAIN defined_opacities :
            /\ c1 # c2
            /\ id \in Listed(background_color_style_map, c1)
            /\ id \in Listed(background_color_style_map, c2)
        /\ fg(defined_styles[id]) \in DOMAIN defined_opacities

\* C8: set_style(s2, id, d) on an identifier that already holds a style s1
\* stores s2 with, on each side, the opacity derived from the entry of s2's own
\* colour, or none when that colour has no entry; the reverse indices still list
\* id under the colours of s1.
C8_Replacement ==
    [][ ( last'.op = "set_style" /\ last'.id \in DOMAIN defined_styles ) =>
          LET s1 == defined_styles[last'.id]
              s2 == last'.style
              d == last'.default_opacity
          IN  /\ defined_styles'[last'.id] =
                    [ bg |-> bg(s2), fg |-> fg(s2),
                      bg_opacity |-> IF bg(s2) \in DOMAIN defined_opacities
                                     THEN Derived(defined_opacities[bg(s2)].bg, d)
                                     ELSE s2.bg_opacity,
                      fg_opacity |-> IF fg(s2) \in DOMAIN defined_opacities
                                     THEN Derived(defined_opacities[fg(s2)].fg, d)
                                     ELSE s2.fg_opacity ]
              /\ bg(s1) # NoColor =>
                    last'.id \in Listed(background_color_style_map', bg(s1))
              /\ fg(s1) # NoColor =>
                    last'.id \in Listed(foreground_color_style_map', fg(s1)) ]_vars

\* C8 witness: set_style has replaced a style that carried applied opacities on
\* both sides by a style with other colours; the old colours still list the id.
C8_Witness ==
    /\ last.op = "set_style"
    /\ \E c \in ColorIds :
        /\ c # bg(last.style)
        /\ c \in DOMAIN defined_opacities
        /\ last.id \in Listed(background_color_style_map, c)
    /\ \E c \in ColorIds :
        /\ c # fg(last.style)
        /\ c \in DOMAIN defined_opacities
        /\ last.id \in Listed(foreground_color_style_map, c)

\* C9: the contents of the style handle a reader holds change only when the
\* reader takes a handle; no call of set_style, set_opacity or
\* update_all_styles_opacity changes them.
C9_SnapshotStable ==
    [][ snapshot'.style # snapshot.style =>
          UNCHANGED << defined_styles, defined_opacities, background_color_style_map,
                       foreground_color_style_map, bg_iter_order, fg_iter_order, last,
                       n_set_style >> ]_vars

\* C9 witness: a reader holds a handle taken from defined_styles(), and a later
\* call has stored a different style under the same identifier.
C9_Witness ==
    /\ snapshot.id \in DOMAIN defined_styles
    /\ ~ snapshot.shared
    /\ snapshot.id # 0
    /\ defined_styles[snapshot.id] # snapshot.style

\* C10: after set_opacity(C, o, d), a stored style that uses C both as background
\* and as foreground has background opacity derived(o, d) and foreground
\* opacity derived(o, d).
C10_BothSidesApplied ==
    last.op = "set_opacity" =>
        \A id \in DOMAIN defined_styles :
            ( bg(defined_styles[id]) = last.color /\ fg(defined_styles[id]) = last.color ) =>
                /\ BackgroundFrom(defined_styles[id], last.color_opacity, last.default_opacity)
                /\ ForegroundFrom(defined_styles[id], last.color_opacity, last.default_opacity)

\* C10 witness: set_opacity(C, ..) has returned and a stored style uses C on
\* both sides.
C10_Witness ==
    /\ last.op = "set_opacity"
    /\ \E id \in DOMAIN defined_styles :
        /\ bg(defined_styles[id]) = last.color
        /\ fg(defined_styles[id]) = last.color

\* C11: a registry is constructed with no styles; identifier 0 gets a stored
\* style only by a set_style call with identifier 0; and a default_style() call
\* changes no table and returns absent when no style is stored under 0,
\* otherwise a copy equal to the style stored under 0.
C11_DefaultStyle ==
    /\ []( last.op = "new" => defined_styles = EmptyMap )
    /\ [][ /\ ( 0 \in DOMAIN defined_styles' /\ 0 \notin DOMAIN defined_styles ) =>
                ( last'.op = "set_style" /\ last'.id = 0 /\ n_set_style' = n_set_style + 1 )
           /\ ( snapshot'.via = "default_style" /\ snapshot' # snapshot ) =>
                /\ UNCHANGED << defined_styles, defined_opacities,
                                background_color_style_map, foreground_color_style_map >>
                /\ IF 0 \in DOMAIN defined_styles
                   THEN snapshot'.id = 0 /\ snapshot'.style = defined_styles[0]
                   ELSE snapshot'.id = NoStyleId /\ snapshot'.style = NoStyle ]_vars

\* C11 witness: default_style() has returned absent on a registry that stores a
\* style under identifier 1 and none under identifier 0.
C11_Witness ==
    /\ snapshot.via = "default_style"
    /\ snapshot.id = NoStyleId
    /\ 1 \in DOMAIN defined_styles
    /\ 0 \notin DOMAIN defined_styles

\* the step is a call of set_style / set_opacity / update_all_styles_opacity
SetStyleStep == n_set_style' = n_set_style + 1
SetOpacityStep == n_set_style' = n_set_style /\ last'.op = "set_opacity"
UpdateAllStep == n_set_style' = n_set_style /\ last'.op = "update_all_styles_opacity"

\* the identifiers held by the lists of a reverse index
AllListed(color_style_map) ==
    UNION { Ids(color_style_map[c]) : c \in DOMAIN color_style_map }

\* C12: lookups that fail are skipped silently. set_opacity(C, o, d) for a colour
\* with no reverse-index entry changes no style and only records o for C; no
\* reverse index ever lists an identifier without a stored style, and set_opacity
\* creates none; set_style of a style without a background (foreground) colour
\* leaves the background (foreground) reverse index and the style's background
\* (foreground) opacity as they were and still stores the style;
\* update_all_styles_opacity with an empty opacity table changes no table.
C12_SilentSkip ==
    /\ []( AllListed(background_color_style_map) \cup AllListed(foreground_color_style_map)
                \subseteq DOMAIN defined_styles )
    /\ [][ /\ ( /\ SetOpacityStep
                /\ last'.color \notin DOMAIN background_color_style_map
                /\ last'.color \notin DOMAIN foreground_color_style_map ) =>
                    /\ UNCHANGED << defined_styles, background_color_style_map,
                                    foreground_color_style_map >>
                    /\ defined_opacities' =
                            Insert(defined_opacities, last'.color, last'.color_opacity)
           /\ SetStyleStep =>
                    /\ last'.id \in DOMAIN defined_styles'
                    /\ bg(defined_styles'[last'.id]) = bg(last'.style)
                    /\ fg(defined_styles'[last'.id]) = fg(last'.style)
                    /\ bg(last'.style) = NoColor =>
                            /\ UNCHANGED background_color_style_map
                            /\ defined_styles'[last'.id].bg_opacity = last'.style.bg_opacity
                    /\ fg(last'.style) = NoColor =>
                            /\ UNCHANGED foreground_color_style_map
                            /\ defined_styles'[last'.id].fg_opacity = last'.style.fg_opacity
           /\ ( UpdateAllStep /\ defined_opacities = EmptyMap ) =>
                    UNCHANGED << defined_styles, defined_opacities,
                                 background_color_style_map, foreground_color_style_map >>
         ]_vars

\* C12 witness: a style with no colour on either side has been stored, a colour
\* that nothing is listed under has an opacity entry, and the last call was an
\* update_all_styles_opacity
C12_Witness ==
    /\ last.op = "update_all_styles_opacity"
    /\ \E id \in DOMAIN defined_styles :
            bg(defined_styles[id]) = NoColor /\ fg(defined_styles[id]) = NoColor
    /\ \E c \in DOMAIN defined_opacities :
            /\ c \notin DOMAIN background_color_style_map
            /\ c \notin DOMAIN foreground_color_style_map

\* C13: update_all_styles_opacity(d) leaves unchanged every stored style none of
\* whose colours has an entry in defined_opacities.
C13_UntouchedWithoutEntry ==
    [][ UpdateAllStep =>
          \A id \in DOMAIN defined_styles :
              ( /\ bg(defined_styles[id]) \notin DOMAIN defined_opacities
                /\ fg(defined_styles[id]) \notin DOMAIN defined_opacities ) =>
                    defined_styles'[id] = defined_styles[id] ]_vars

\* the list of a reverse index under a colour, empty when the colour is no key
ListOf(color_style_map, color) ==
    IF color \in DOMAIN color_style_map THEN color_style_map[color] ELSE << >>

\* the later reverse index is the earlier one with id appended to the list of
\* the colour; with no colour it is the earlier one
Appended(before, after, color, id) ==
    IF color = NoColor THEN after = before
    ELSE /\ DOMAIN after = DOMAIN before \cup { color }
         /\ after[color] = ListOf(before, color) \o << id >>
         /\ \A c \in DOMAIN before \ { color } : after[c] = before[c]

\* every list of the earlier reverse index is a prefix of the later one's list
PrefixOf(before, after) ==
    \A c \in DOMAIN before :
        /\ c \in DOMAIN after
        /\ Len(before[c]) <= Len(after[c])
        /\ SubSeq(after[c], 1, Len(before[c])) = before[c]

\* C14: set_style(s, id, d) appends id exactly once to the background list of
\* s.bg and once to the foreground list of s.fg, when the colour is present and
\* whether or not id is already in the list, and changes no other list; every
\* list of an earlier state is a prefix of the list in any later state;
\* set_opacity and update_all_styles_opacity leave both reverse indices unchanged.
C14_AppendOnly ==
    [][ /\ SetStyleStep =>
             /\ Appended(background_color_style_map, background_color_style_map',
                         bg(last'.style), last'.id)
             /\ Appended(foreground_color_style_map, foreground_color_style_map',
                         fg(last'.style), last'.id)
        /\ PrefixOf(background_color_style_map, background_color_style_map')
        /\ PrefixOf(foreground_color_style_map, foreground_color_style_map')
        /\ ( SetOpacityStep \/ UpdateAllStep ) =>
             UNCHANGED << background_color_style_map, foreground_color_style_map >>
      ]_vars

\* C14 witness: an identifier redefined with the same background colour is
\* listed twice under it
C14_Witness ==
    \E c \in DOMAIN background_color_style_map :
        /\ Len(background_color_style_map[c]) = 2
        /\ background_color_style_map[c][1] = background_color_style_map[c][2]

\* C15: set_opacity(C, o, d) makes the entry of C in defined_opacities equal to
\* o, whether or not C had one, and changes no other colour's entry; a colour
\* that has an entry has one in every later state; set_style and
\* update_all_styles_opacity leave defined_opacities unchanged.
C15_OpacityTable ==
    [][ /\ SetOpacityStep =>
             /\ DOMAIN defined_opacities' = DOMAIN defined_opacities \cup { last'.color }
             /\ defined_opacities'[last'.color] = last'.color_opacity
             /\ \A c \in DOMAIN defined_opacities \ { last'.color } :
                    defined_opacities'[c] = defined_opacities[c]
        /\ DOMAIN defined_opacities \subseteq DOMAIN defined_opacities'
        /\ ( SetStyleStep \/ UpdateAllStep ) => UNCHANGED defined_opacities
      ]_vars

\* C15 witness: set_opacity(C, o, d) has returned, another colour has kept an
\* entry different from o, and a stored style uses C
C15_Witness ==
    /\ last.op = "set_opacity"
    /\ defined_opacities[last.color] = last.color_opacity
    /\ \E c \in DOMAIN defined_opacities \ { last.color } :
            defined_opacities[c] # last.color_opacity
    /\ \E id \in DOMAIN defined_styles : bg(defined_styles[id]) = last.color

\* id is listed under the colour in the reverse index of a side although the
\* style now stored under id uses the colour on neither side
Stale(color_style_map, color, id) ==
    /\ id \in DOMAIN defined_styles
    /\ id \in Listed(color_style_map, color)
    /\ bg(defined_styles[id]) # color
    /\ fg(defined_styles[id]) # color

\* C16: when id was defined with colour C on a side and then redefined with a
\* style that does not use C, the style stored under id after set_opacity(C, o, d)
\* has that side's opacity derived from o at d, and the style stored under id
\* after update_all_styles_opacity(d), when C has an opacity entry, has that
\* side's opacity derived from C's entry at d.
C16_StaleUpdated ==
    /\ last.op = "set_opacity" =>
          \A id \in StyleIds :
              /\ Stale(background_color_style_map, last.color, id) =>
                    BackgroundFrom(defined_styles[id], last.color_opacity, last.default_opacity)
              /\ Stale(foreground_color_style_map, last.color, id) =>
                    ForegroundFrom(defined_styles[id], last.color_opacity, last.default_opacity)
    /\ last.op = "update_all_styles_opacity" =>
          \A id \in StyleIds, color \in DOMAIN defined_opacities :
              /\ Stale(background_color_style_map, color, id) =>
                    BackgroundFrom(defined_styles[id], defined_opacities[color],
                                   last.default_opacity)
              /\ Stale(foreground_color_style_map, color, id) =>
                    ForegroundFrom(defined_styles[id], defined_opacities[color],
                                   last.default_opacity)

\* C17: the defined_styles table left by update_all_styles_opacity(d) is the same
\* for every order in which the iterations may visit the colours of the two
\* reverse indices.
C17_OrderIndependent ==
    \A d \in Factors :
        \A b1, b2 \in IterOrders(bg_iter_order, DOMAIN background_color_style_map),
           f1, f2 \in IterOrders(fg_iter_order, DOMAIN foreground_color_style_map) :
            update_all_styles_opacity(StyleRegistry, b1, f1, d).defined_styles
                = update_all_styles_opacity(StyleRegistry, b2, f2, d).defined_styles

\* C18: every identifier whose stored style has background colour c is listed
\* under c in background_color_style_map, and every identifier whose stored
\* style has foreground colour c is listed under c in foreground_color_style_map.
C18_IndexComplete ==
    \A id \in DOMAIN defined_styles :
        /\ bg(defined_styles[id]) # NoColor =>
              id \in Listed(background_color_style_map, bg(defined_styles[id]))
        /\ fg(defined_styles[id]) # NoColor =>
              id \in Listed(foreground_color_style_map, fg(defined_styles[id]))

\* C18 witness: two identifiers share a background colour, both have been
\* rewritten by a set_opacity on it, and both are listed under it
C18_Witness ==
    /\ last.op = "set_opacity"
    /\ Cardinality({ id \in DOMAIN defined_styles :
                        /\ bg(defined_styles[id]) = last.color
                        /\ defined_styles[id].bg_opacity # NoOpacity }) = 2
    /\ Cardinality(Listed(background_color_style_map, last.color)) = 2

\* C19: set_opacity and update_all_styles_opacity leave the set of identifiers
\* of defined_styles as it was, set_style adds its identifier to it and nothing
\* else, and no call removes an identifier.
C19_KeysOnlyBySetStyle ==
    [][ /\ ( SetOpacityStep \/ UpdateAllStep ) =>
             DOMAIN defined_styles' = DOMAIN defined_styles
        /\ SetStyleStep =>
             DOMAIN defined_styles' = DOMAIN defined_styles \cup { last'.id }
        /\ DOMAIN defined_styles \subseteq DOMAIN defined_styles'
      ]_vars

\* C19 witness: update_all_styles_opacity has rewritten one of two stored
\* styles and left the other, whose colours have no opacity entry, in place
C19_Witness ==
    /\ last.op = "update_all_styles_opacity"
    /\ DOMAIN defined_styles = StyleIds
    /\ \E id \in StyleIds :
            /\ bg(defined_styles[id]) \in DOMAIN defined_opacities
            /\ BackgroundFrom(defined_styles[id], defined_opacities[bg(defined_styles[id])],
                              last.default_opacity)
    /\ \E id \in StyleIds :
            /\ defined_styles[id].bg_opacity = NoOpacity
            /\ defined_styles[id].fg_opacity = NoOpacity

\* C20: for an identifier id with no stored style and one factor d,
\* set_opacity(C, o, d) followed by set_style(s, id, d) leaves the same
\* defined_styles, defined_opacities and reverse indices as set_style(s, id, d)
\* followed by set_opacity(C, o, d). Whenever set_opacity(C, o, d) is called,
\* set_style(s, id, d) on the registry it leaves gives what set_opacity(C, o, d)
\* gives on the registry that the same set_style makes of the registry it found;
\* and whenever set_style(s, id, d) is called with such an id, set_opacity(C, o, d)
\* on the registry it leaves gives what the same set_style gives after
\* set_opacity(C, o, d) on the registry it found.
C20_OrderIndependence ==
    [][ /\ SetOpacityStep =>
             \A id \in StyleIds \ DOMAIN defined_styles, s \in InputStyles :
                 set_style(StyleRegistry', s, id, last'.default_opacity)
                     = set_opacity(set_style(StyleRegistry, s, id, last'.default_opacity),
                                   last'.color, last'.color_opacity, last'.default_opacity)
        /\ ( SetStyleStep /\ last'.id \notin DOMAIN defined_styles ) =>
             \A color \in ColorIds, o \in ColorOpacities :
                 set_opacity(StyleRegistry', color, o, last'.default_opacity)
                     = set_style(set_opacity(StyleRegistry, color, o, last'.default_opacity),
                                 last'.style, last'.id, last'.default_opacity) ]_vars

\* C20 witness: set_opacity(C, o, d) has returned while one identifier has no
\* stored style and the other, redefined without C, is still listed under C
C20_Witness ==
    /\ last.op = "set_opacity"
    /\ StyleIds \ DOMAIN defined_styles # {}
    /\ \E other \in DOMAIN defined_styles :
            Stale(background_color_style_map, last.color, other)

====
